---- MODULE Spec2Model ----
(***************************************************************************)
(* The /prove pipeline of the remote prover: request parsing, the program  *)
(* resolver (ensure_programs_available), admission through the limiter,    *)
(* the blocking proving worker, response shaping and the broadcast POST.   *)
(*                                                                         *)
(* The repository holds two implementations of the route: handle_prove in  *)
(* src/lib.rs (limiter, add_program, no fee branch) and handle_prove in    *)
(* src/server.rs with src/programs.rs and src/proving.rs (fee branch,      *)
(* add_program_with_edition, no limiter).  The variable handler says which *)
(* of the two serves the route; every action follows the code of that one. *)
(***************************************************************************)
EXTENDS Integers, Sequences, FiniteSets, TLC

VARIABLES
    handler,     \* "lib" (src/lib.rs) or "server" (src/server.rs)
    maxProofs,   \* ProverConfig.max_concurrent_proofs
    process,     \* the VM registry: the programs loaded in Process
    readers,     \* requests whose worker holds the registry read lock
    limiter,     \* permits available in the Semaphore (lib.rs)
    waiters,     \* requests queued on limiter.acquire_owned(), oldest first
    req,         \* the ProveRequest body of each request
    pc,          \* where each request's handler is
    phase,       \* which authorization is being resolved or executed
    run,         \* the locals of the request's ensure_programs_available run:
                 \* stack, scheduled, pending, the program being fetched or
                 \* installed (cur), and what the run has fetched and added
    permit,      \* whether the request owns an OwnedSemaphorePermit
    wpc,         \* where each request's blocking worker is
    wres,        \* the worker's result
    resp,        \* the HTTP response of each request
    posts,       \* broadcast POSTs sent by each request
    okRuns,      \* authorizations for which a resolver run returned Ok
    okPhases,    \* phases of the request whose resolver run returned Ok
    msg,         \* the message of each request's error response
    bres,        \* what the broadcast endpoint answered to each request's POST
    net,         \* the network each request's handler fetches from and broadcasts to
    health,      \* the last response of GET /
    enforce,     \* ProverConfig.enforce_program_editions
    calc         \* the last call of one of the program's pure functions:
                 \* which function, its arguments and what it returned

vars == <<handler, maxProofs, process, readers, limiter, waiters, req, pc, phase,
          run, permit, wpc, wres, resp, posts, okRuns, okPhases, msg, bres, net, health,
          enforce, calc>>

(***************************************************************************)
(* Bounds of the model.                                                    *)
(***************************************************************************)
MaxRequests == 2
MaxProofs == 1
LiveRequests == 3
LiveProofs == 2
NetRequests == 1
ResolverRequests == 2
MaxSeeds == 2

(***************************************************************************)
(* The explorer and the programs it serves.                                *)
(***************************************************************************)
Credits == "credits"

ProgramIds == {"credits", "a", "b", "c", "x", "y", "s", "m"}

\* program.imports().keys(), in declaration order
Imports(p) ==
    CASE p = "a" -> <<"b", "c">>
      [] p = "b" -> <<"c", "credits">>
      [] p = "x" -> <<"y">>
      [] p = "y" -> <<"x">>
      [] p = "s" -> <<"s">>
      [] OTHER -> <<>>

\* the programs the explorer can serve; a request for another one gets a non-2xx status
OnExplorer == {"credits", "a", "b", "c", "x", "y", "s"}

\* the body of GET /program/{id}/latest_edition: {} is a 404, {n} the edition n
LatestEdition(p) == IF p = "c" THEN {} ELSE {1}

Range(s) == {s[i] : i \in 1..Len(s)}

ImportSet(p) == Range(Imports(p))

RECURSIVE ClosureFrom(_, _)
ClosureFrom(S, n) ==
    IF n = 0 THEN S
    ELSE ClosureFrom(S \cup UNION {ImportSet(p) : p \in S}, n - 1)

\* every program id reachable through declared imports from the ids in S
Closure(S) == ClosureFrom(S, Cardinality(ProgramIds))

(***************************************************************************)
(* Requests.                                                               *)
(***************************************************************************)
\* An Authorization: whether the VM parser accepts the payload, the program
\* ids of its pending requests and the program ids of its transitions.
NoAuth == [valid |-> FALSE, requests |-> <<>>, transitions |-> <<>>]

ValidAuths ==
    { [valid |-> TRUE, requests |-> <<"a">>, transitions |-> <<"a">>],
      [valid |-> TRUE, requests |-> <<"c">>, transitions |-> <<"b">>],
      [valid |-> TRUE, requests |-> <<"c">>, transitions |-> <<>>],
      [valid |-> TRUE, requests |-> <<"x">>, transitions |-> <<>>],
      [valid |-> TRUE, requests |-> <<"m", "credits">>, transitions |-> <<>>] }

FeeAuths ==
    { [valid |-> TRUE, requests |-> <<"credits">>, transitions |-> <<>>],
      [valid |-> TRUE, requests |-> <<"a">>, transitions |-> <<>>] }

\* the primary authorizations sent together with a fee authorization
FeePrimaries ==
    { [valid |-> TRUE, requests |-> <<"c">>, transitions |-> <<"b">>],
      [valid |-> TRUE, requests |-> <<"m", "credits">>, transitions |-> <<>>] }

\* Option<bool> of ProveRequest.broadcast
BroadcastFlags == {"none", "true", "false"}

\* ProveRequest of lib.rs has no fee_authorization field; model.rs has one.
\* The broadcast field is "unread" until the handler reads it.
Bodies(h) ==
    { [authorization |-> a, has_fee |-> FALSE, fee_authorization |-> NoAuth,
       broadcast |-> "unread"] : a \in ValidAuths \cup {NoAuth} }
    \cup
    IF h = "server"
    THEN { [authorization |-> a, has_fee |-> TRUE, fee_authorization |-> f,
            broadcast |-> "unread"] :
               a \in FeePrimaries, f \in FeeAuths \cup {NoAuth} }
    ELSE {}

NoBody == [authorization |-> NoAuth, has_fee |-> FALSE, fee_authorization |-> NoAuth,
           broadcast |-> "unread"]

\* the program ids an authorization names
Seeds(auth) == Range(auth.requests) \cup Range(auth.transitions)

RECURSIVE Installable(_, _)
Installable(p, n) ==
    \/ p = Credits
    \/ /\ n > 0
       /\ p \in OnExplorer
       /\ \A i \in ImportSet(p) : Installable(i, n - 1)

\* the explorer serves the whole import closure of the authorization, without a cycle
Resolvable(auth) == \A p \in Seeds(auth) : Installable(p, Cardinality(ProgramIds))

\* the bodies of the valid requests of the concurrency scenario
ValidBodies(h) ==
    { b \in Bodies(h) :
        /\ b.authorization.valid /\ Resolvable(b.authorization)
        /\ b.has_fee => (b.fee_authorization.valid /\ Resolvable(b.fee_authorization)) }

(***************************************************************************)
(* Responses.                                                              *)
(***************************************************************************)
NoBroadcast == [present |-> FALSE, requested |-> FALSE, success |-> FALSE,
                status |-> "none", error |-> FALSE]

NoResponse == [code |-> "none", status |-> "none", fee |-> FALSE, broadcast |-> NoBroadcast]

\* bad_request / the 400 json_reply
BadRequest == [code |-> "400", status |-> "error", fee |-> FALSE, broadcast |-> NoBroadcast]

\* error_reply / the 500 json_reply
ErrorReply == [code |-> "500", status |-> "error", fee |-> FALSE, broadcast |-> NoBroadcast]

\* The message of an error response: what failed and the program id it names.
NoMessage == [kind |-> "none", program |-> "none"]

\* "Error parsing authorization: .." / "Invalid authorization payload: .."
ParseError == [kind |-> "parse", program |-> "none"]

\* mutant of ResolveError: the message does not say which program failed
ResolveErrorAnonymous(id) == [kind |-> "resolve", program |-> "none"]

\* the resolver's error strings: "Failed to fetch program '{id}'",
\* "Program '{id}' request failed with status ..", "Failed to add program '{id}'"
ResolveError(id) == [kind |-> "resolve", program |-> id]

\* the worker's error string, "Worker panicked while proving: .." or
\* "Failed to serialize transaction: .."
WorkerError(kind) == [kind |-> kind, program |-> "none"]

\* enum Network
Networks == {"mainnet", "testnet", "canary"}

\* Option<Network> of ProveRequest.network
NetworkFields == {"none"} \cup Networks

\* ProverConfig::default(): network: Network::Testnet
StartupNetwork == "testnet"

\* the network whose explorer base and broadcast endpoint the handler uses:
\* lib.rs takes req.network when it is there, server.rs asks ProverConfig only
EffectiveNetwork(h, field) == IF h = "lib" /\ field # "none" THEN field ELSE StartupNetwork

NoHealth == [code |-> "none", status |-> "none"]

\* mutant of HealthReply: the route answers that the server is busy
HealthBusy == [code |-> "503", status |-> "busy"]

\* json_reply(StatusCode::OK, {"status": "ok"})
HealthReply == [code |-> "200", status |-> "ok"]

(***************************************************************************)
(* The registry (Process) and the limiter.                                 *)
(***************************************************************************)
\* Process::load(): credits.aleo is loaded at construction
LoadedProcess == {[id |-> Credits, edition |-> 0, api |-> "load"]}

ProcessIds(proc) == {e.id : e \in proc}

\* Process::contains_program
ContainsProgram(proc, id) == id \in ProcessIds(proc)

\* mutant of AddProgramRejects: a program is added whatever its imports
NeverRejects(proc, id) == FALSE

\* Process::add_program rejects a program one of whose imports is not loaded
AddProgramRejects(proc, id) == \E i \in ImportSet(id) : ~ContainsProgram(proc, i)

\* Semaphore::new(config.max_concurrent_proofs().max(1))
Capacity(n) == IF n > 1 THEN n ELSE 1

Requests == DOMAIN pc

\* the locals of a resolver run that has not started or is over
NoRun ==
    [stack |-> <<>>, scheduled |-> {}, pending |-> <<>>,
     cur |-> [id |-> Credits, edition |-> 0, url |-> {}],
     fetchLog |-> <<>>, installLog |-> <<>>, rerun |-> FALSE, guard |-> "none"]

\* the read guards alive on the registry: those of the workers inside their
\* read-lock section and those a resolver has not dropped (its guard is the
\* local of a block that ends before the next await, so it holds none)
ReadGuards == readers \cup {q \in DOMAIN run : run[q].guard = "read"}

\* no pure function has been called
NoCalc == [op |-> "none", input |-> <<>>, output |-> <<>>]

\* the state after construction: n requests to come, the route served by one
\* of handlers, max_concurrent_proofs one of proofs and
\* enforce_program_editions one of flags
InitOn(n, handlers, proofs, flags) ==
    /\ enforce \in flags
    /\ calc = NoCalc
    /\ handler \in handlers
    /\ maxProofs \in proofs
    /\ process = LoadedProcess
    /\ readers = {}
    /\ limiter = Capacity(maxProofs)
    /\ waiters = <<>>
    /\ req = [r \in 1..n |-> NoBody]
    /\ pc = [r \in 1..n |-> "idle"]
    /\ phase = [r \in 1..n |-> "primary"]
    /\ run = [r \in 1..n |-> NoRun]
    /\ permit = [r \in 1..n |-> FALSE]
    /\ wpc = [r \in 1..n |-> "none"]
    /\ wres = [r \in 1..n |-> [outcome |-> "none", fee_info |-> FALSE, artifact |-> "none"]]
    /\ resp = [r \in 1..n |-> NoResponse]
    /\ posts = [r \in 1..n |-> 0]
    /\ okRuns = {}
    /\ okPhases = [r \in 1..n |-> {}]
    /\ msg = [r \in 1..n |-> NoMessage]
    /\ bres = [r \in 1..n |-> "none"]
    /\ net = [r \in 1..n |-> "none"]
    /\ health = NoHealth

\* ProverConfig::default(): enforce_program_editions: true
InitWith(n, handlers, proofs) == InitOn(n, handlers, proofs, {TRUE})

Init == InitWith(MaxRequests, {"lib", "server"}, 1..MaxProofs)

(***************************************************************************)
(* The resolver: ensure_programs_available.                                *)
(***************************************************************************)
\* mutant of InitialStack: the transitions' program ids are left out
InitialStackNoTransitions(auth) ==
    [i \in 1..Len(auth.requests) |-> [id |-> auth.requests[i], ready |-> FALSE]]

\* the initial work stack: the requests' program ids, then the transitions'
InitialStack(auth) ==
    [i \in 1..Len(auth.requests) |-> [id |-> auth.requests[i], ready |-> FALSE]]
    \o [i \in 1..Len(auth.transitions) |-> [id |-> auth.transitions[i], ready |-> FALSE]]

\* the authorization the request's current phase is about
AuthOf(r) == IF phase[r] = "fee" THEN req[r].fee_authorization ELSE req[r].authorization

\* pending.iter().position(|p| *p.program.id() == program_id); 0 when there is none
Position(pend, id) ==
    IF \E i \in 1..Len(pend) : pend[i].id = id
    THEN CHOOSE i \in 1..Len(pend) : pend[i].id = id /\ \A j \in 1..(i - 1) : pend[j].id # id
    ELSE 0

\* Vec::swap_remove: the last element takes the place of the removed one
SwapRemove(pend, idx) ==
    [i \in 1..(Len(pend) - 1) |-> IF i = idx THEN pend[Len(pend)] ELSE pend[i]]

\* HashMap::remove of lib.rs
RemoveKey(pend, id) == SelectSeq(pend, LAMBDA e : e.id # id)

\* mutant of FetchedEdition: a program without editions is taken to be at
\* edition 1
FetchedEditionFromOne(h, id) ==
    IF h = "server"
    THEN IF LatestEdition(id) # {} THEN CHOOSE n \in LatestEdition(id) : TRUE ELSE 1
    ELSE 0

\* fetch_latest_edition(..).await?.unwrap_or(0) in programs.rs; lib.rs fetches no edition
FetchedEdition(h, id) ==
    IF h = "server" /\ LatestEdition(id) # {} THEN CHOOSE n \in LatestEdition(id) : TRUE ELSE 0

\* what a successful fetch of the program id hands to the resolver: the
\* program with the edition it is to be installed with, and url, the edition
\* segment of the address the source was requested at ({} when the address
\* has none: build_program_url(base, program_id, None) in lib.rs)
FetchRemoteProgram(h, id) ==
    LET edition == FetchedEdition(h, id) IN
    [id |-> id, edition |-> edition, url |-> IF h = "server" THEN {edition} ELSE {}]

\* the entry add_program / add_program_with_edition leaves in the registry
Entry(h, program) ==
    [id |-> program.id, edition |-> program.edition,
     api |-> IF h = "server" THEN "add_program_with_edition" ELSE "add_program"]

\* mutant of PushImports: the ready entry is pushed above the imports, so a
\* program is installed before what it imports
PushImportsPreOrder(stk, id) ==
    stk \o [i \in 1..Len(Imports(id)) |-> [id |-> Imports(id)[i], ready |-> FALSE]]
        \o <<[id |-> id, ready |-> TRUE]>>

\* (program_id, true), then (import_id, false) for each import, pushed in order
PushImports(stk, id) ==
    stk \o <<[id |-> id, ready |-> TRUE]>>
        \o [i \in 1..Len(Imports(id)) |-> [id |-> Imports(id)[i], ready |-> FALSE]]

\* the locals of a run of ensure_programs_available that starts on auth
NewRun(auth, oks) == [NoRun EXCEPT !.stack = InitialStack(auth), !.rerun = auth \in oks]

\* the handler returns response
Reply(r, response) ==
    /\ resp' = [resp EXCEPT ![r] = response]
    /\ pc' = [pc EXCEPT ![r] = "done"]

\* mutant of ParseFails: the fee authorization is not parsed
ParseFailsPrimaryOnly(body) == ~body.authorization.valid

\* Authorization::from_str fails on the primary or on the supplied fee payload
ParseFails(body) ==
    ~body.authorization.valid \/ (body.has_fee /\ ~body.fee_authorization.valid)

\* handle_prove from its entry to the first iteration of the resolver's loop;
\* field is the body's network field
ReceiveOn(r, body, field) ==
    /\ pc[r] = "idle"
    /\ req' = [req EXCEPT ![r] = body]
    /\ IF ParseFails(body)
       THEN /\ Reply(r, BadRequest)
            /\ msg' = [msg EXCEPT ![r] = ParseError]
            /\ UNCHANGED <<run, net>>
       ELSE /\ run' = [run EXCEPT ![r] = NewRun(body.authorization, okRuns)]
            /\ net' = [net EXCEPT ![r] = EffectiveNetwork(handler, field)]
            /\ pc' = [pc EXCEPT ![r] = "resolve"]
            /\ UNCHANGED <<resp, msg>>
    /\ UNCHANGED <<bres, health>>
    /\ UNCHANGED <<enforce, calc>>
    /\ UNCHANGED <<handler, maxProofs, process, readers, limiter, waiters, phase,
                   permit, wpc, wres, posts, okRuns, okPhases>>

\* a request whose body has no network field
Receive(r, body) == ReceiveOn(r, body, "none")

\* the body of `while let Some((program_id, ready)) = stack.pop()` for the
\* entry top, up to the write lock or the fetch it leads to: the run's locals
\* and the place of the handler afterwards; present is what
\* guard.contains_program(&program_id) returned under the read lock
PopStep(h, present, locals, top) ==
    LET idx == Position(locals.pending, top.id) IN
    IF top.id = Credits
    THEN [locals |-> locals, pc |-> "resolve"]
    ELSE IF present
    THEN [locals |-> [locals EXCEPT !.pending = IF h = "lib" /\ top.ready
                                                 THEN RemoveKey(@, top.id) ELSE @],
          pc |-> "resolve"]
    ELSE IF top.ready
    THEN IF idx # 0
         THEN [locals |-> [locals EXCEPT !.cur = locals.pending[idx],
                                         !.pending = IF h = "lib" THEN RemoveKey(@, top.id)
                                                     ELSE SwapRemove(@, idx)],
               pc |-> "install"]
         ELSE [locals |-> locals, pc |-> "resolve"]
    ELSE IF top.id \in locals.scheduled
    THEN [locals |-> locals, pc |-> "resolve"]
    ELSE [locals |-> [locals EXCEPT !.scheduled = @ \cup {top.id},
                                    !.cur = [id |-> top.id, edition |-> 0, url |-> {}],
                                    !.fetchLog = Append(@, top.id)],
          pc |-> "fetch"]

\* mutant of AfterPop: the registry is not consulted before scheduling
AfterPopSkipsCheck(h, proc, locals, top) == PopStep(h, FALSE, locals, top)

\* mutant of AfterPop: an entry whose program is already scheduled is put
\* back on the stack to wait for it
AfterPopRequeues(h, proc, locals, top) ==
    IF top.id # Credits /\ ~ContainsProgram(proc, top.id) /\ ~top.ready
           /\ top.id \in locals.scheduled
    THEN [locals |-> [locals EXCEPT !.stack = Append(@, top)], pc |-> "resolve"]
    ELSE PopStep(h, ContainsProgram(proc, top.id), locals, top)

\* mutant of AfterPop: credits.aleo is scheduled for a fetch like any program
AfterPopFetchesCredits(h, proc, locals, top) ==
    IF top.id = Credits /\ Credits \notin locals.scheduled
    THEN [locals |-> [locals EXCEPT !.scheduled = @ \cup {top.id},
                                    !.cur = [id |-> top.id, edition |-> 0, url |-> {}],
                                    !.fetchLog = Append(@, top.id)],
          pc |-> "fetch"]
    ELSE PopStep(h, ContainsProgram(proc, top.id), locals, top)

\* mutant of AfterPop: the scheduled set is not consulted
AfterPopForgetsScheduled(h, proc, locals, top) ==
    PopStep(h, ContainsProgram(proc, top.id), [locals EXCEPT !.scheduled = {}], top)

\* mutant of AfterPop: the read guard of the membership check lives on until
\* the end of the iteration, across the fetch
AfterPopKeepsGuard(h, proc, locals, top) ==
    LET after == PopStep(h, ContainsProgram(proc, top.id), locals, top) IN
    IF after.pc = "fetch"
    THEN [locals |-> [after.locals EXCEPT !.guard = "read"], pc |-> "fetch"]
    ELSE after

\* mutant of AfterPop: the registry is consulted for ready entries only, so
\* a seed is fetched whether or not it is installed
AfterPopChecksReadyOnly(h, proc, locals, top) ==
    PopStep(h, top.ready /\ ContainsProgram(proc, top.id), locals, top)

\* the loop body with the registry read under the read lock
AfterPop(h, proc, locals, top) == PopStep(h, ContainsProgram(proc, top.id), locals, top)

\* one iteration of the resolver's loop
Pop(r) ==
    /\ pc[r] = "resolve"
    /\ run[r].stack # <<>>
    /\ LET n == Len(run[r].stack)
           popped == [run[r] EXCEPT !.stack = SubSeq(@, 1, n - 1)]
           after == AfterPop(handler, process, popped, run[r].stack[n])
       IN  /\ run' = [run EXCEPT ![r] = after.locals]
           /\ pc' = [pc EXCEPT ![r] = after.pc]
    /\ UNCHANGED <<msg, bres, net, health>>
    /\ UNCHANGED <<enforce, calc>>
    /\ UNCHANGED <<handler, maxProofs, process, readers, limiter, waiters, req, phase,
                   permit, wpc, wres, resp, posts, okRuns, okPhases>>

\* mutant of FetchReturn: a failed fetch for the primary authorization is
\* logged and the handler goes on to the fee authorization
FetchReturnGoesOn(r, reply) ==
    /\ pc[r] = "fetch"
    /\ IF reply = "ok" /\ run[r].cur.id \in OnExplorer
       THEN /\ run' = [run EXCEPT
                         ![r].pending = Append(@, FetchRemoteProgram(handler, run[r].cur.id)),
                         ![r].stack = PushImports(@, run[r].cur.id)]
            /\ pc' = [pc EXCEPT ![r] = "resolve"]
            /\ UNCHANGED <<resp, msg, phase>>
       ELSE IF phase[r] = "primary" /\ handler = "server" /\ req[r].has_fee
       THEN /\ phase' = [phase EXCEPT ![r] = "fee"]
            /\ run' = [run EXCEPT ![r] = NewRun(req[r].fee_authorization, okRuns)]
            /\ pc' = [pc EXCEPT ![r] = "resolve"]
            /\ UNCHANGED <<resp, msg>>
       ELSE /\ Reply(r, ErrorReply)
            /\ msg' = [msg EXCEPT ![r] = ResolveError(run[r].cur.id)]
            /\ run' = [run EXCEPT ![r] = NoRun]
            /\ UNCHANGED phase
    /\ UNCHANGED <<bres, net, health>>
    /\ UNCHANGED <<enforce, calc>>
    /\ UNCHANGED <<handler, maxProofs, process, readers, limiter, waiters, req,
                   permit, wpc, wres, posts, okRuns, okPhases>>

\* fetch_remote_program / fetch_remote_program_with_edition returns; reply is
\* what the explorer did: "ok", or "fail" for a transport error, a non-2xx
\* status or a body that does not parse
FetchReturn(r, reply) ==
    /\ pc[r] = "fetch"
    /\ IF reply = "ok" /\ run[r].cur.id \in OnExplorer
       THEN /\ run' = [run EXCEPT
                         ![r].pending = Append(@, FetchRemoteProgram(handler, run[r].cur.id)),
                         ![r].stack = PushImports(@, run[r].cur.id)]
            /\ pc' = [pc EXCEPT ![r] = "resolve"]
            /\ UNCHANGED <<resp, msg>>
       ELSE /\ Reply(r, ErrorReply)
            /\ msg' = [msg EXCEPT ![r] = ResolveError(run[r].cur.id)]
            /\ run' = [run EXCEPT ![r] = NoRun]
    /\ UNCHANGED <<bres, net, health>>
    /\ UNCHANGED <<enforce, calc>>
    /\ UNCHANGED <<handler, maxProofs, process, readers, limiter, waiters, req, phase,
                   permit, wpc, wres, posts, okRuns, okPhases>>

\* mutant of AddProgram: the registry is rebuilt around the new program
AddProgramEvicting(proc, h, program) == LoadedProcess \cup {Entry(h, program)}

\* the registry after add_program(program) succeeded
AddProgram(proc, h, program) == proc \cup {Entry(h, program)}

\* mutant of Install: add_program is called without the re-check under the
\* write lock
InstallNoRecheck(r) ==
    /\ pc[r] = "install"
    /\ ReadGuards = {}
    /\ IF AddProgramRejects(process, run[r].cur.id)
       THEN /\ Reply(r, ErrorReply)
            /\ msg' = [msg EXCEPT ![r] = ResolveError(run[r].cur.id)]
            /\ run' = [run EXCEPT ![r] = NoRun]
            /\ UNCHANGED process
       ELSE /\ process' = AddProgram(process, handler, run[r].cur)
            /\ run' = [run EXCEPT ![r].installLog = Append(@, run[r].cur.id)]
            /\ pc' = [pc EXCEPT ![r] = "resolve"]
            /\ UNCHANGED <<resp, msg>>
    /\ UNCHANGED <<bres, net, health>>
    /\ UNCHANGED <<enforce, calc>>
    /\ UNCHANGED <<handler, maxProofs, readers, limiter, waiters, req, phase,
                   permit, wpc, wres, posts, okRuns, okPhases>>

\* the write-lock section: re-check membership, then add the program
Install(r) ==
    /\ pc[r] = "install"
    /\ ReadGuards = {}
    /\ IF ContainsProgram(process, run[r].cur.id)
       THEN /\ pc' = [pc EXCEPT ![r] = "resolve"]
            /\ UNCHANGED <<process, run, resp, msg>>
       ELSE IF AddProgramRejects(process, run[r].cur.id)
       THEN /\ Reply(r, ErrorReply)
            /\ msg' = [msg EXCEPT ![r] = ResolveError(run[r].cur.id)]
            /\ run' = [run EXCEPT ![r] = NoRun]
            /\ UNCHANGED process
       ELSE /\ process' = AddProgram(process, handler, run[r].cur)
            /\ run' = [run EXCEPT ![r].installLog = Append(@, run[r].cur.id)]
            /\ pc' = [pc EXCEPT ![r] = "resolve"]
            /\ UNCHANGED <<resp, msg>>
    /\ UNCHANGED <<bres, net, health>>
    /\ UNCHANGED <<enforce, calc>>
    /\ UNCHANGED <<handler, maxProofs, readers, limiter, waiters, req, phase,
                   permit, wpc, wres, posts, okRuns, okPhases>>

(***************************************************************************)
(* Admission, the blocking worker, the response and the broadcast.         *)
(***************************************************************************)
\* mutant of HasFeeBranch: the fee authorization is never looked at
NoFeeBranch(h, body) == FALSE

\* whether the handler resolves and proves a fee authorization
HasFeeBranch(h, body) == h = "server" /\ body.has_fee

\* the loop ends with the stack empty: Ok(()). The handler goes on to the fee
\* authorization's run, to limiter.acquire_owned() (lib.rs) or to
\* spawn_blocking (server.rs)
ResolveReturn(r) ==
    /\ pc[r] = "resolve"
    /\ run[r].stack = <<>>
    /\ okRuns' = okRuns \cup {AuthOf(r)}
    /\ okPhases' = [okPhases EXCEPT ![r] = @ \cup {phase[r]}]
    /\ IF phase[r] = "primary" /\ HasFeeBranch(handler, req[r])
       THEN /\ phase' = [phase EXCEPT ![r] = "fee"]
            /\ run' = [run EXCEPT ![r] = NewRun(req[r].fee_authorization, okRuns')]
            /\ UNCHANGED <<pc, wpc, waiters>>
       ELSE /\ run' = [run EXCEPT ![r] = NoRun]
            /\ phase' = [phase EXCEPT ![r] = "primary"]
            /\ IF handler = "lib"
               THEN /\ pc' = [pc EXCEPT ![r] = "acquire"]
                    /\ waiters' = Append(waiters, r)
                    /\ UNCHANGED wpc
               ELSE /\ pc' = [pc EXCEPT ![r] = "join"]
                    /\ wpc' = [wpc EXCEPT ![r] = "start"]
                    /\ UNCHANGED waiters
    /\ UNCHANGED <<msg, bres, net, health>>
    /\ UNCHANGED <<enforce, calc>>
    /\ UNCHANGED <<handler, maxProofs, process, readers, limiter, req, permit,
                   wres, resp, posts>>

\* limiter.acquire_owned() completes for the oldest waiter, and the handler
\* spawns the blocking worker
Acquire(r) ==
    /\ handler = "lib"
    /\ pc[r] = "acquire"
    /\ waiters # <<>> /\ Head(waiters) = r
    /\ limiter > 0
    /\ limiter' = limiter - 1
    /\ waiters' = Tail(waiters)
    /\ permit' = [permit EXCEPT ![r] = TRUE]
    /\ pc' = [pc EXCEPT ![r] = "join"]
    /\ wpc' = [wpc EXCEPT ![r] = "start"]
    /\ UNCHANGED <<msg, bres, net, health>>
    /\ UNCHANGED <<enforce, calc>>
    /\ UNCHANGED <<handler, maxProofs, process, readers, req, phase, run,
                   wres, resp, posts, okRuns, okPhases>>

\* what the worker hands back through the join: prove_transaction of
\* proving.rs returns ProvingArtifacts with the proved transaction, the
\* closure of lib.rs the (response, trace) of execute, which holds no proof
Artifact(h, out) ==
    IF out # "ok" THEN "none" ELSE IF h = "server" THEN "transaction" ELSE "trace"

\* the JSON body of the broadcast POST: server.rs posts the serialized
\* transaction, lib.rs the authorization and the summary of the execution
BroadcastPayload(h, artifact) == IF h = "server" THEN artifact ELSE "authorization"

\* the worker runs up to process.read(); pre is the outcome of the steps of
\* prove_transaction before it (query, block height, consensus version, peek_next)
WorkerLock(r, pre) ==
    /\ wpc[r] = "start"
    /\ IF pre = "ok" \/ handler = "lib" \/ phase[r] = "fee"
       THEN /\ readers' = readers \cup {r}
            /\ wpc' = [wpc EXCEPT ![r] = "locked"]
            /\ UNCHANGED wres
       ELSE /\ wpc' = [wpc EXCEPT ![r] = "done"]
            /\ wres' = [wres EXCEPT ![r] = [outcome |-> pre, fee_info |-> FALSE,
                                            artifact |-> Artifact(handler, pre)]]
            /\ UNCHANGED readers
    /\ UNCHANGED <<msg, bres, net, health>>
    /\ UNCHANGED <<enforce, calc>>
    /\ UNCHANGED <<handler, maxProofs, process, limiter, waiters, req, pc, phase, run,
                   permit, resp, posts, okRuns, okPhases>>

\* mutant of FeeInfo: the artifacts never carry fee_info
NoFeeInfo(h, body) == FALSE

\* fee_info of ProvingArtifacts: Some exactly when a fee authorization was proved
FeeInfo(h, body) == h = "server" /\ body.has_fee

\* mutant of WorkerExecute: the read guard is not dropped at the end of the
\* section
WorkerExecuteKeepsLock(r, out) ==
    /\ wpc[r] = "locked"
    /\ IF out = "ok" /\ phase[r] = "primary" /\ HasFeeBranch(handler, req[r])
       THEN /\ phase' = [phase EXCEPT ![r] = "fee"]
            /\ wpc' = [wpc EXCEPT ![r] = "start"]
            /\ UNCHANGED wres
       ELSE /\ wpc' = [wpc EXCEPT ![r] = "done"]
            /\ wres' = [wres EXCEPT ![r] =
                           [outcome |-> out,
                            fee_info |-> out = "ok" /\ FeeInfo(handler, req[r]),
                            artifact |-> Artifact(handler, out)]]
            /\ UNCHANGED phase
    /\ UNCHANGED <<msg, bres, net, health>>
    /\ UNCHANGED <<enforce, calc>>
    /\ UNCHANGED <<handler, maxProofs, process, readers, limiter, waiters, req, pc, run,
                   permit, resp, posts, okRuns, okPhases>>

\* the read-lock section (checks and execute) and what follows it up to the next
\* read lock or the return; out is the outcome of that stretch
WorkerExecute(r, out) ==
    /\ wpc[r] = "locked"
    /\ readers' = readers \ {r}
    /\ IF out = "ok" /\ phase[r] = "primary" /\ HasFeeBranch(handler, req[r])
       THEN /\ phase' = [phase EXCEPT ![r] = "fee"]
            /\ wpc' = [wpc EXCEPT ![r] = "start"]
            /\ UNCHANGED wres
       ELSE /\ wpc' = [wpc EXCEPT ![r] = "done"]
            /\ wres' = [wres EXCEPT ![r] =
                           [outcome |-> out,
                            fee_info |-> out = "ok" /\ FeeInfo(handler, req[r]),
                            artifact |-> Artifact(handler, out)]]
            /\ UNCHANGED phase
    /\ UNCHANGED <<msg, bres, net, health>>
    /\ UNCHANGED <<enforce, calc>>
    /\ UNCHANGED <<handler, maxProofs, process, limiter, waiters, req, pc, run,
                   permit, resp, posts, okRuns, okPhases>>

\* req.broadcast.unwrap_or(true)
BroadcastRequested(flag) == flag # "false"

\* mutant of ReleasePermit: the permit is forgotten, not dropped
KeepPermit(held, n) == n

\* drop(permit): the permit goes back to the limiter
ReleasePermit(held, n) == IF held THEN n + 1 ELSE n

\* the success body before the broadcast section is added
SuccessBody(fee_info) ==
    [code |-> "200", status |-> "success", fee |-> fee_info, broadcast |-> NoBroadcast]

\* the broadcast section of a request that asked for no broadcast: server.rs
\* inserts {"requested": false}, lib.rs inserts nothing
NotRequested(h) ==
    IF h = "server"
    THEN [present |-> TRUE, requested |-> FALSE, success |-> FALSE, status |-> "none",
          error |-> FALSE]
    ELSE NoBroadcast

\* mutant of JoinFails: a panicked worker is taken for one that returned
JoinFailsIgnoresPanic(h, outcome, ser) == outcome = "err" \/ (h = "server" /\ ~ser)

\* mutant of JoinFails: a logic error of the prover is let through
JoinFailsIgnoresErr(h, outcome, ser) == outcome = "panic" \/ (h = "server" /\ ~ser)

\* the arms of the matches on the join result that return the 500 reply:
\* Err(join_error), Ok(Err(err)) and, in server.rs, a transaction that does
\* not serialize
JoinFails(h, outcome, ser) == outcome # "ok" \/ (h = "server" /\ ~ser)

\* mutant of Join: the permit is kept until the broadcast POST has returned
JoinHoldsPermit(r, flag, ser) ==
    /\ pc[r] = "join"
    /\ wpc[r] = "done"
    /\ IF JoinFails(handler, wres[r].outcome, ser)
       THEN /\ Reply(r, ErrorReply)
            /\ msg' = [msg EXCEPT ![r] = WorkerError(IF wres[r].outcome = "ok"
                                                     THEN "serialize" ELSE wres[r].outcome)]
            /\ limiter' = ReleasePermit(permit[r], limiter)
            /\ permit' = [permit EXCEPT ![r] = FALSE]
            /\ UNCHANGED <<posts, req>>
       ELSE /\ UNCHANGED msg
            /\ req' = [req EXCEPT ![r].broadcast = flag]
            /\ IF BroadcastRequested(flag)
               THEN /\ posts' = [posts EXCEPT ![r] = @ + 1]
                    /\ pc' = [pc EXCEPT ![r] = "broadcast"]
                    /\ UNCHANGED <<resp, limiter, permit>>
               ELSE /\ Reply(r, [SuccessBody(wres[r].fee_info)
                                    EXCEPT !.broadcast = NotRequested(handler)])
                    /\ limiter' = ReleasePermit(permit[r], limiter)
                    /\ permit' = [permit EXCEPT ![r] = FALSE]
                    /\ UNCHANGED posts
    /\ UNCHANGED <<bres, net, health>>
    /\ UNCHANGED <<enforce, calc>>
    /\ UNCHANGED <<handler, maxProofs, process, readers, waiters, phase, run,
                   wpc, wres, okRuns, okPhases>>

\* the handler resumes after the worker's join: the permit is dropped, the
\* result is matched, the response is built and the broadcast POST is sent;
\* flag is the body's broadcast field, read here, and ser says whether the
\* transaction serializes (server.rs)
Join(r, flag, ser) ==
    /\ pc[r] = "join"
    /\ wpc[r] = "done"
    /\ limiter' = ReleasePermit(permit[r], limiter)
    /\ permit' = [permit EXCEPT ![r] = FALSE]
    /\ IF JoinFails(handler, wres[r].outcome, ser)
       THEN /\ Reply(r, ErrorReply)
            /\ msg' = [msg EXCEPT ![r] = WorkerError(IF wres[r].outcome = "ok"
                                                     THEN "serialize" ELSE wres[r].outcome)]
            /\ UNCHANGED <<posts, req>>
       ELSE /\ UNCHANGED msg
            /\ req' = [req EXCEPT ![r].broadcast = flag]
            /\ IF BroadcastRequested(flag)
               THEN /\ posts' = [posts EXCEPT ![r] = @ + 1]
                    /\ pc' = [pc EXCEPT ![r] = "broadcast"]
                    /\ UNCHANGED resp
               ELSE /\ Reply(r, [SuccessBody(wres[r].fee_info)
                                    EXCEPT !.broadcast = NotRequested(handler)])
                    /\ UNCHANGED posts
    /\ UNCHANGED <<bres, net, health>>
    /\ UNCHANGED <<enforce, calc>>
    /\ UNCHANGED <<handler, maxProofs, process, readers, waiters, phase, run,
                   wpc, wres, okRuns, okPhases>>

\* mutant of BroadcastMeta: the section reports success whatever came back
BroadcastMetaOptimistic(out) ==
    [present |-> TRUE, requested |-> TRUE, success |-> TRUE,
     status |-> IF out = "transport" THEN "none" ELSE out, error |-> FALSE]

\* the broadcast section after the POST: out is "2xx", "non2xx" or "transport"
BroadcastMeta(out) ==
    [present |-> TRUE, requested |-> TRUE, success |-> out = "2xx",
     status |-> IF out = "transport" THEN "none" ELSE out, error |-> out = "transport"]

\* client.post(&endpoint).json(..).send().await returns
BroadcastReturn(r, out) ==
    /\ pc[r] = "broadcast"
    /\ bres' = [bres EXCEPT ![r] = out]
    /\ Reply(r, [SuccessBody(wres[r].fee_info) EXCEPT !.broadcast = BroadcastMeta(out)])
    /\ UNCHANGED <<msg, net, health>>
    /\ UNCHANGED <<enforce, calc>>
    /\ UNCHANGED <<handler, maxProofs, process, readers, limiter, waiters, req, phase,
                   run, permit, wpc, wres, posts, okRuns, okPhases>>

\* mutant of Cancel: the worker is aborted together with the handler
CancelAbortsWorker(r) ==
    /\ pc[r] \in {"fetch", "acquire", "join", "broadcast"}
    /\ pc' = [pc EXCEPT ![r] = "cancelled"]
    /\ run' = [run EXCEPT ![r] = NoRun]
    /\ limiter' = ReleasePermit(permit[r], limiter)
    /\ permit' = [permit EXCEPT ![r] = FALSE]
    /\ waiters' = SelectSeq(waiters, LAMBDA w : w # r)
    /\ wpc' = [wpc EXCEPT ![r] = "none"]
    /\ readers' = readers \ {r}
    /\ UNCHANGED <<msg, bres, net, health>>
    /\ UNCHANGED <<enforce, calc>>
    /\ UNCHANGED <<handler, maxProofs, process, req, phase,
                   wres, resp, posts, okRuns, okPhases>>

\* the client disconnects while the handler is suspended at an await: the
\* handler's future is dropped with its locals; a spawned worker keeps running
Cancel(r) ==
    /\ pc[r] \in {"fetch", "acquire", "join", "broadcast"}
    /\ pc' = [pc EXCEPT ![r] = "cancelled"]
    /\ run' = [run EXCEPT ![r] = NoRun]
    /\ limiter' = ReleasePermit(permit[r], limiter)
    /\ permit' = [permit EXCEPT ![r] = FALSE]
    /\ waiters' = SelectSeq(waiters, LAMBDA w : w # r)
    /\ UNCHANGED <<msg, bres, net, health>>
    /\ UNCHANGED <<enforce, calc>>
    /\ UNCHANGED <<handler, maxProofs, process, readers, req, phase,
                   wpc, wres, resp, posts, okRuns, okPhases>>

\* GET /: the health route answers without looking at the state
HealthCheck ==
    /\ health' = HealthReply
    /\ UNCHANGED <<handler, maxProofs, process, readers, limiter, waiters, req, pc, phase,
                   run, permit, wpc, wres, resp, posts, okRuns, okPhases, msg, bres, net,
                   enforce, calc>>

Outcomes == {"ok", "err", "panic"}

Next ==
    \/ \E r \in Requests, body \in Bodies(handler) : Receive(r, body)
    \/ \E r \in Requests : Pop(r)
    \/ \E r \in Requests, reply \in {"ok", "fail"} : FetchReturn(r, reply)
    \/ \E r \in Requests : Install(r)
    \/ \E r \in Requests : ResolveReturn(r)
    \/ \E r \in Requests : Acquire(r)
    \/ \E r \in Requests, pre \in Outcomes : WorkerLock(r, pre)
    \/ \E r \in Requests, out \in Outcomes : WorkerExecute(r, out)
    \/ \E r \in Requests, flag \in BroadcastFlags, ser \in BOOLEAN : Join(r, flag, ser)
    \/ \E r \in Requests, out \in {"2xx", "non2xx", "transport"} : BroadcastReturn(r, out)
    \/ \E r \in Requests : Cancel(r)

Spec == Init /\ [][Next]_vars

(***************************************************************************)
(* The concurrency scenario: LiveRequests valid requests, LiveProofs       *)
(* permits, an explorer, a VM and a broadcast endpoint that answer, and    *)
(* clients that stay connected.  The runtime runs every task that can run, *)
(* the blocking pool runs every worker, and the limiter serves its waiters *)
(* in the order they came.                                                 *)
(***************************************************************************)
\* the scenario's request: one call of a program without imports, no fee
LiveBodies(h) ==
    {b \in ValidBodies(h) : ~b.has_fee /\ Closure(Seeds(b.authorization)) = {"c"}}

LiveInit == InitWith(LiveRequests, {"lib", "server"}, {LiveProofs})

LiveNext ==
    \/ \E r \in Requests, body \in LiveBodies(handler) : Receive(r, body)
    \/ \E r \in Requests : Pop(r)
    \/ \E r \in Requests : FetchReturn(r, "ok")
    \/ \E r \in Requests : Install(r)
    \/ \E r \in Requests : ResolveReturn(r)
    \/ \E r \in Requests : Acquire(r)
    \/ \E r \in Requests : WorkerLock(r, "ok")
    \/ \E r \in Requests : WorkerExecute(r, "ok")
    \/ \E r \in Requests : Join(r, "none", TRUE)
    \/ \E r \in Requests : BroadcastReturn(r, "2xx")

LiveSpec == LiveInit /\ [][LiveNext]_vars /\ WF_vars(LiveNext)

(***************************************************************************)
(* The server with its health route.                                       *)
(***************************************************************************)
HealthNext == Next \/ HealthCheck

HealthSpec == Init /\ [][HealthNext]_vars

(***************************************************************************)
(* Requests that carry a network field.                                    *)
(***************************************************************************)
NetInit == InitWith(NetRequests, {"lib", "server"}, 1..MaxProofs)

NetNext ==
    \/ \E r \in Requests, body \in Bodies(handler), field \in NetworkFields :
           ReceiveOn(r, body, field)
    \/ \E r \in Requests : Pop(r)
    \/ \E r \in Requests, reply \in {"ok", "fail"} : FetchReturn(r, reply)
    \/ \E r \in Requests : Install(r)
    \/ \E r \in Requests : ResolveReturn(r)
    \/ \E r \in Requests : Acquire(r)
    \/ \E r \in Requests, pre \in Outcomes : WorkerLock(r, pre)
    \/ \E r \in Requests, out \in Outcomes : WorkerExecute(r, out)
    \/ \E r \in Requests, flag \in BroadcastFlags, ser \in BOOLEAN : Join(r, flag, ser)
    \/ \E r \in Requests, out \in {"2xx", "non2xx", "transport"} : BroadcastReturn(r, out)
    \/ \E r \in Requests : Cancel(r)

NetSpec == NetInit /\ [][NetNext]_vars

(***************************************************************************)
(* The resolver alone, on every seed set of up to MaxSeeds program ids     *)
(* over the explorer's graph (chain, diamond, self-import, cycle, missing  *)
(* program), with an explorer that answers or fails each fetch.  The       *)
(* runtime keeps running a handler that can run.                           *)
(***************************************************************************)
\* the program ids that come together in one authorization
PairIds == {"a", "x", "credits"}

SeedSeqs == [1..1 -> ProgramIds] \cup [1..MaxSeeds -> PairIds]

SeedBodies ==
    { [authorization |-> [valid |-> TRUE, requests |-> q, transitions |-> <<>>],
       has_fee |-> FALSE, fee_authorization |-> NoAuth, broadcast |-> "unread"] :
          q \in SeedSeqs }

ResolverInit == InitWith(ResolverRequests, {"lib", "server"}, {MaxProofs})

ResolverNext ==
    \/ \E r \in Requests, body \in SeedBodies : Receive(r, body)
    \/ \E r \in Requests : Pop(r)
    \/ \E r \in Requests, reply \in {"ok", "fail"} : FetchReturn(r, reply)
    \/ \E r \in Requests : Install(r)
    \/ \E r \in Requests : ResolveReturn(r)

ResolverSpec == ResolverInit /\ [][ResolverNext]_vars /\ WF_vars(ResolverNext)

(***************************************************************************)
(* One request, with enforce_program_editions on or off.                   *)
(***************************************************************************)
EditionRequests == 1

EditionInit == InitOn(EditionRequests, {"lib", "server"}, 1..MaxProofs, BOOLEAN)

EditionSpec == EditionInit /\ [][Next]_vars

(***************************************************************************)
(* The pure functions of the program.  A text is a sequence of characters, *)
(* a URL a sequence of segments and "/" separators.  A Call action applies  *)
(* one function to one argument and keeps the result in calc; a behaviour  *)
(* holds one application.                                                  *)
(***************************************************************************)
Call(op, input, output) ==
    /\ calc = NoCalc
    /\ calc' = [op |-> op, input |-> input, output |-> output]
    /\ UNCHANGED <<handler, maxProofs, process, readers, limiter, waiters, req, pc, phase,
                   run, permit, wpc, wres, resp, posts, okRuns, okPhases, msg, bres, net,
                   health, enforce>>

\* Network::base_url
BaseUrl(network) ==
    <<"https:", "/", "/", "api.explorer.provable.com", "/", "v2", "/", network>>

RECURSIVE TrimEndMatches(_, _)
\* str::trim_end_matches(c)
TrimEndMatches(s, c) ==
    IF s # <<>> /\ s[Len(s)] = c THEN TrimEndMatches(SubSeq(s, 1, Len(s) - 1), c) ELSE s

RECURSIVE TrimStartMatches(_, _)
\* str::trim_start_matches(c)
TrimStartMatches(s, c) ==
    IF s # <<>> /\ s[1] = c THEN TrimStartMatches(Tail(s), c) ELSE s

\* Network::endpoint: format!("{base}/{path}") of the trimmed base and path
Endpoint(network, path) ==
    TrimEndMatches(BaseUrl(network), "/") \o <<"/">> \o TrimStartMatches(path, "/")

\* Network::broadcast_endpoint
BroadcastEndpoint(network) == Endpoint(network, <<"transaction", "/", "broadcast">>)

CallBroadcastEndpoint(network) ==
    Call("broadcast_endpoint", network, BroadcastEndpoint(network))

\* A JSON text: the compact or the pretty-printed text of an object, or the
\* text of a string literal whose content is inner.
ObjectText(auth, layout) == [kind |-> "object", auth |-> auth, layout |-> layout]

StringText(inner) == [kind |-> "string", inner |-> inner]

\* the authorizations and the other JSON objects a client may send
PayloadAuths == ValidAuths \cup {NoAuth}

InnerTexts == {ObjectText(a, l) : a \in PayloadAuths, l \in {"compact", "pretty"}}

\* the JSON value of the body's authorization field: an object, or a string
\* that holds a JSON text
Payloads ==
    {[form |-> "object", auth |-> a] : a \in PayloadAuths}
        \cup {[form |-> "string", text |-> t] : t \in InnerTexts}

\* serde_json::to_string of a JSON value: compact text; a string becomes a
\* quoted string literal
ToJsonString(payload) ==
    IF payload.form = "object" THEN ObjectText(payload.auth, "compact")
    ELSE StringText(payload.text)

\* AuthorizationPayload::to_compact_string: a String is handed on as it is
ToCompactString(payload) ==
    IF payload.form = "object" THEN ToJsonString(payload) ELSE payload.text

\* the text handed to Authorization::from_str: lib.rs goes through
\* to_compact_string, parse_authorization of server.rs through
\* serde_json::to_string(payload)
ParserInput(h, payload) ==
    IF h = "lib" THEN ToCompactString(payload) ELSE ToJsonString(payload)

\* Authorization::from_str: the text must be that of an object which is an
\* authorization; whitespace between tokens does not matter
VmAccepts(text) == text.kind = "object" /\ text.auth.valid

CallParse(h, payload) ==
    Call("parse", [handler |-> h, payload |-> payload],
         [text |-> ParserInput(h, payload), ok |-> VmAccepts(ParserInput(h, payload))])

(* Texts of environment values, and the parsers of the standard library.    *)
Whitespace == {" ", "\t", "\n"}

DigitChars == <<"0", "1", "2", "3", "4", "5", "6", "7", "8", "9">>

IsDigit(c) == \E i \in 1..Len(DigitChars) : DigitChars[i] = c

DigitValue(c) == (CHOOSE i \in 1..Len(DigitChars) : DigitChars[i] = c) - 1

RECURSIVE TrimStart(_)
TrimStart(s) == IF s # <<>> /\ s[1] \in Whitespace THEN TrimStart(Tail(s)) ELSE s

RECURSIVE TrimEnd(_)
TrimEnd(s) ==
    IF s # <<>> /\ s[Len(s)] \in Whitespace THEN TrimEnd(SubSeq(s, 1, Len(s) - 1)) ELSE s

\* str::trim
Trim(s) == TrimEnd(TrimStart(s))

UpperCase == <<"A", "B", "C", "D", "E", "F", "G", "H", "I", "J", "K", "L", "M",
               "N", "O", "P", "Q", "R", "S", "T", "U", "V", "W", "X", "Y", "Z">>

LowerCase == <<"a", "b", "c", "d", "e", "f", "g", "h", "i", "j", "k", "l", "m",
               "n", "o", "p", "q", "r", "s", "t", "u", "v", "w", "x", "y", "z">>

ToLowerChar(c) ==
    IF \E i \in 1..Len(UpperCase) : UpperCase[i] = c
    THEN LowerCase[CHOOSE i \in 1..Len(UpperCase) : UpperCase[i] = c]
    ELSE c

\* str::to_lowercase
ToLowercase(s) == [i \in 1..Len(s) |-> ToLowerChar(s[i])]

\* the largest values of the unsigned types, as decimal digits
UsizeMax == <<1, 8, 4, 4, 6, 7, 4, 4, 0, 7, 3, 7, 0, 9, 5, 5, 1, 6, 1, 5>>

U16Max == <<6, 5, 5, 3, 5>>

U8Max == <<2, 5, 5>>

RECURSIVE StripZeros(_)
StripZeros(d) == IF Len(d) > 1 /\ d[1] = 0 THEN StripZeros(Tail(d)) ELSE d

\* digits d, without leading zeros, denote a number above max
Exceeds(d, max) ==
    \/ Len(d) > Len(max)
    \/ /\ Len(d) = Len(max)
       /\ \E i \in 1..Len(d) : d[i] > max[i] /\ \A j \in 1..(i - 1) : d[j] = max[j]

RECURSIVE DecimalValue(_)
DecimalValue(d) ==
    IF d = <<>> THEN 0 ELSE DecimalValue(SubSeq(d, 1, Len(d) - 1)) * 10 + d[Len(d)]

ParseErr == [ok |-> FALSE, value |-> 0]

AllDigits(s) == \A i \in 1..Len(s) : IsDigit(s[i])

DigitsOf(s) == [i \in 1..Len(s) |-> DigitValue(s[i])]

\* str::parse for an unsigned integer type: an optional "+", then one or
\* more decimal digits, the value within the type
ParseUnsigned(s, max) ==
    LET body == IF s # <<>> /\ s[1] = "+" THEN Tail(s) ELSE s
        d    == StripZeros(DigitsOf(body))
    IN  IF body = <<>> \/ ~AllDigits(body) THEN ParseErr
        ELSE IF Exceeds(d, max) THEN ParseErr
        ELSE [ok |-> TRUE, value |-> DecimalValue(d)]

LastIndexOf(s, c) ==
    IF \E i \in 1..Len(s) : s[i] = c
    THEN CHOOSE i \in 1..Len(s) : s[i] = c /\ \A j \in (i + 1)..Len(s) : s[j] # c
    ELSE 0

RECURSIVE SplitOn(_, _)
\* str::split(c)
SplitOn(s, c) ==
    IF \E i \in 1..Len(s) : s[i] = c
    THEN LET i == LastIndexOf(s, c)
         IN  Append(SplitOn(SubSeq(s, 1, i - 1), c), SubSeq(s, i + 1, Len(s)))
    ELSE <<s>>

\* one part of a dotted IPv4 address: one to three digits, no leading zero,
\* at most 255
IsOctet(t) ==
    /\ Len(t) \in 1..Len(U8Max)
    /\ AllDigits(t)
    /\ Len(t) > 1 => t[1] # "0"
    /\ ~Exceeds(DigitsOf(t), U8Max)

\* the port of a socket address: decimal digits, at most 65535
IsPort(t) == t # <<>> /\ AllDigits(t) /\ ~Exceeds(StripZeros(DigitsOf(t)), U16Max)

\* str::parse::<SocketAddr> for the IPv4 form a.b.c.d:port (the bracketed
\* IPv6 form is not among the values explored)
ParseSocketAddr(s) ==
    LET i     == LastIndexOf(s, ":")
        parts == SplitOn(SubSeq(s, 1, i - 1), ".")
        port  == SubSeq(s, i + 1, Len(s))
    IN  IF i = 0 THEN ParseErr
        ELSE IF Len(parts) # 4 \/ \E k \in 1..Len(parts) : ~IsOctet(parts[k]) THEN ParseErr
        ELSE IF ~IsPort(port) THEN ParseErr
        ELSE [ok |-> TRUE,
              value |-> [ip   |-> [k \in 1..4 |-> DecimalValue(DigitsOf(parts[k]))],
                         port |-> DecimalValue(StripZeros(DigitsOf(port)))]]

\* Network::from_str
NetworkFromStr(s) ==
    LET t == ToLowercase(Trim(s))
    IN  IF t = <<"m", "a", "i", "n", "n", "e", "t">> THEN [ok |-> TRUE, value |-> "mainnet"]
        ELSE IF t = <<"t", "e", "s", "t", "n", "e", "t">> THEN [ok |-> TRUE, value |-> "testnet"]
        ELSE IF t = <<"c", "a", "n", "a", "r", "y">> THEN [ok |-> TRUE, value |-> "canary"]
        ELSE [ok |-> FALSE, value |-> "none"]

\* parse_bool
ParseBool(input) ==
    LET t == ToLowercase(Trim(input))
    IN  IF t \in {<<"1">>, <<"t", "r", "u", "e">>, <<"y", "e", "s">>, <<"o", "n">>}
        THEN [ok |-> TRUE, value |-> TRUE]
        ELSE IF t \in {<<"0">>, <<"f", "a", "l", "s", "e">>, <<"n", "o">>, <<"o", "f", "f">>}
        THEN [ok |-> TRUE, value |-> FALSE]
        ELSE [ok |-> FALSE, value |-> FALSE]

(* The environment and ProverConfig::from_env.                             *)
Unset == [set |-> FALSE, text |-> <<>>]

Var(text) == [set |-> TRUE, text |-> text]

MaxCpus == 2

\* std::thread::available_parallelism: an error, or a positive count
Parallelism == {ParseErr} \cup {[ok |-> TRUE, value |-> n] : n \in 1..MaxCpus}

\* impl Default for ProverConfig
DefaultConfig(par) ==
    [listen_addr              |-> [ip |-> <<0, 0, 0, 0>>, port |-> 3030],
     max_concurrent_proofs    |-> IF par.ok THEN par.value ELSE 1,
     network                  |-> "testnet",
     enforce_program_editions |-> TRUE,
     rest_endpoint_override   |-> Unset]

LoadListenAddr(config, v) ==
    IF v.set /\ ParseSocketAddr(v.text).ok
    THEN [config EXCEPT !.listen_addr = ParseSocketAddr(v.text).value]
    ELSE config

\* a mutation of LoadMaxConcurrentProofs without the guard value > 0
LoadMaxAnyNumber(config, v) ==
    IF v.set /\ ParseUnsigned(v.text, UsizeMax).ok
    THEN [config EXCEPT !.max_concurrent_proofs = ParseUnsigned(v.text, UsizeMax).value]
    ELSE config

LoadMaxConcurrentProofs(config, v) ==
    IF v.set /\ ParseUnsigned(v.text, UsizeMax).ok /\ ParseUnsigned(v.text, UsizeMax).value > 0
    THEN [config EXCEPT !.max_concurrent_proofs = ParseUnsigned(v.text, UsizeMax).value]
    ELSE config

\* a mutation of LoadNetwork in which an invalid NETWORK also puts the
\* concurrency cap back to one
LoadNetworkResetting(config, v) ==
    IF v.set /\ Trim(v.text) # <<>>
    THEN IF NetworkFromStr(Trim(v.text)).ok
         THEN [config EXCEPT !.network = NetworkFromStr(Trim(v.text)).value]
         ELSE [config EXCEPT !.max_concurrent_proofs = 1]
    ELSE config

LoadNetwork(config, v) ==
    IF v.set /\ Trim(v.text) # <<>> /\ NetworkFromStr(Trim(v.text)).ok
    THEN [config EXCEPT !.network = NetworkFromStr(Trim(v.text)).value]
    ELSE config

LoadEnforceProgramEditions(config, v) ==
    IF v.set /\ ParseBool(v.text).ok
    THEN [config EXCEPT !.enforce_program_editions = ParseBool(v.text).value]
    ELSE config

LoadRestEndpointOverride(config, v) ==
    IF v.set /\ Trim(v.text) # <<>>
    THEN [config EXCEPT !.rest_endpoint_override = Var(v.text)]
    ELSE config

\* ProverConfig::from_env: the default, then one key after the other
FromEnv(env, par) ==
    LoadRestEndpointOverride(
        LoadEnforceProgramEditions(
            LoadNetwork(
                LoadMaxConcurrentProofs(
                    LoadListenAddr(DefaultConfig(par), env.PROVER_LISTEN_ADDR),
                    env.MAX_CONCURRENT_PROOFS),
                env.NETWORK),
            env.ENFORCE_PROGRAM_EDITIONS),
        env.REST_ENDPOINT_OVERRIDE)

\* the values explored for each key
ListenAddrTexts ==
    {<<>>,
     <<"1", "2", "7", ".", "0", ".", "0", ".", "1", ":", "8", "0", "8", "0">>,
     <<"l", "o", "c", "a", "l", "h", "o", "s", "t">>,
     <<"2", "5", "6", ".", "0", ".", "0", ".", "1", ":", "8", "0">>,
     <<"1", ".", "2", ".", "3", ".", "4", ":", "6", "5", "5", "3", "6">>}

MaxProofsTexts ==
    {<<>>, <<"0">>, <<"4">>, <<"+", "2">>, <<"-", "1">>, <<"a", "b", "c">>, <<" ", "2">>,
     <<"0", "3">>, <<"1", "8", "4", "4", "6", "7", "4", "4", "0", "7", "3", "7", "0", "9",
                    "5", "5", "1", "6", "1", "6">>}

NetworkTexts ==
    {<<>>, <<" ", " ">>, <<"m", "a", "i", "n", "n", "e", "t">>,
     <<" ", "C", "a", "n", "a", "r", "y", " ">>, <<"d", "e", "v", "n", "e", "t">>}

EnforceTexts ==
    {<<>>, <<"t", "r", "u", "e">>, <<"0">>, <<" ", "O", "F", "F", " ">>, <<"N", "o">>,
     <<"m", "a", "y", "b", "e">>}

OverrideTexts ==
    {<<>>, <<" ", "\t">>, <<"h", "t", "t", "p", ":", "/", "/", "n", "o", "d", "e", "/">>}

EnvValues(texts) == {Unset} \cup {Var(t) : t \in texts}

Envs ==
    [PROVER_LISTEN_ADDR       : EnvValues(ListenAddrTexts),
     MAX_CONCURRENT_PROOFS    : EnvValues(MaxProofsTexts),
     NETWORK                  : EnvValues(NetworkTexts),
     ENFORCE_PROGRAM_EDITIONS : EnvValues(EnforceTexts),
     REST_ENDPOINT_OVERRIDE   : EnvValues(OverrideTexts)]

CallFromEnv(env, par) ==
    Call("from_env", [env |-> env, par |-> par], FromEnv(env, par))

(* fetch_latest_edition: what the explorer answers, and what is returned.  *)
Statuses == {200, 204, 301, 404, 500}

EditionBodies ==
    {<<>>, <<"1">>, <<" ", "7", "\n">>, <<"6", "5", "5", "3", "5">>,
     <<"6", "5", "5", "3", "6">>, <<"-", "1">>, <<"1", ".", "0">>, <<"n", "o", "n", "e">>}

\* send() fails, or a reply arrives whose body text() can or cannot read
EditionReplies ==
    {[kind |-> "transport", status |-> 0, body |-> <<>>, readable |-> FALSE]}
        \cup [kind : {"http"}, status : Statuses, body : EditionBodies, readable : BOOLEAN]

\* StatusCode::is_success
IsSuccess(status) == status \in 200..299

OkNone == [ok |-> TRUE, some |-> FALSE, edition |-> 0, error |-> "none", status |-> 0]

OkSome(n) == [ok |-> TRUE, some |-> TRUE, edition |-> n, error |-> "none", status |-> 0]

EditionErr(kind, status) ==
    [ok |-> FALSE, some |-> FALSE, edition |-> 0, error |-> kind, status |-> status]

\* a mutation of FetchLatestEdition in which 404 is an error like any other
\* status
FetchLatestEditionStrict(reply) ==
    IF reply.kind = "transport" THEN EditionErr("fetch", 0)
    ELSE IF ~IsSuccess(reply.status) THEN EditionErr("status", reply.status)
    ELSE IF ~reply.readable THEN EditionErr("read", 0)
    ELSE IF ~ParseUnsigned(Trim(reply.body), U16Max).ok THEN EditionErr("parse", 0)
    ELSE OkSome(ParseUnsigned(Trim(reply.body), U16Max).value)

\* fetch_latest_edition
FetchLatestEdition(reply) ==
    IF reply.kind = "transport" THEN EditionErr("fetch", 0)
    ELSE IF ~IsSuccess(reply.status)
    THEN IF reply.status = 404 THEN OkNone ELSE EditionErr("status", reply.status)
    ELSE IF ~reply.readable THEN EditionErr("read", 0)
    ELSE IF ~ParseUnsigned(Trim(reply.body), U16Max).ok THEN EditionErr("parse", 0)
    ELSE OkSome(ParseUnsigned(Trim(reply.body), U16Max).value)

CallFetchLatestEdition(reply) ==
    Call("fetch_latest_edition", reply, FetchLatestEdition(reply))

(* prove_transaction: the SNARK version.  Consensus versions are numbered   *)
(* from 1 (ConsensusVersion::V1).                                          *)
MaxConsensus == 6

\* a mutation of VarunaVersion that leaves V1 one consensus version early
VarunaVersionEarly(cv) == IF cv \in 1..2 THEN "V1" ELSE "V2"

\* (ConsensusVersion::V1..=ConsensusVersion::V3).contains(&consensus_version)
VarunaVersion(cv) == IF cv \in 1..3 THEN "V1" ELSE "V2"

\* the versions handed to prove_execution and, with a fee authorization,
\* to prove_fee
ProveVersions(cv, has_fee) ==
    [execution |-> VarunaVersion(cv),
     fee       |-> IF has_fee THEN VarunaVersion(cv) ELSE "none"]

CallProveTransaction(cv, has_fee) ==
    Call("prove_transaction", [cv |-> cv, has_fee |-> has_fee], ProveVersions(cv, has_fee))

(* truncate_for_log.                                                       *)
LogLimit == 256

MaxText == 259

\* the character U+2026 that marks a truncated text
Ellipsis == "..."

\* texts of every length up to MaxText whose characters tell their position,
\* of one-byte characters and of the two-byte characters U+00E9, U+00FC
Alphabets == {<<"a", "b", "c">>, <<"U+00E9", "U+00FC">>}

TextOf(n, alphabet) == [i \in 1..n |-> alphabet[(i % Len(alphabet)) + 1]]

LogTexts == {TextOf(n, a) : n \in 0..MaxText, a \in Alphabets}

\* a mutation of TruncateForLog that keeps one character less
TruncateShort(input, max_len) ==
    IF Len(input) <= max_len THEN input
    ELSE Append(SubSeq(input, 1, max_len - 1), Ellipsis)

\* truncate_for_log: chars().count() and chars().take(max_len) count
\* characters, not bytes
TruncateForLog(input, max_len) ==
    IF Len(input) <= max_len THEN input
    ELSE Append(SubSeq(input, 1, max_len), Ellipsis)

\* truncate_for_log(&transaction_string, 256), truncate_for_log(&text, 256)
CallTruncateForLog(text) ==
    Call("truncate_for_log", text, TruncateForLog(text, LogLimit))

(* The read-lock section of the worker: the calls on the authorization and *)
(* the process made between process.read() and the release of the guard.   *)
VmCalls == {"check_valid_edition", "check_valid_records", "execute"}

\* what each call would return for the authorization at hand
VmResults == [VmCalls -> {"ok", "err"}]

\* prove_transaction of proving.rs checks the edition and the records before
\* execute; the worker closure of lib.rs calls execute alone
SectionCalls(h) ==
    IF h = "server" THEN <<"check_valid_edition", "check_valid_records", "execute">>
    ELSE <<"execute">>

RECURSIVE RunCalls(_, _, _)
\* each call is followed by map_err(..)?, so the first Err ends the section
RunCalls(calls, results, made) ==
    IF calls = <<>> THEN [calls |-> made, outcome |-> "ok"]
    ELSE IF results[Head(calls)] = "ok"
    THEN RunCalls(Tail(calls), results, Append(made, Head(calls)))
    ELSE [calls |-> Append(made, Head(calls)), outcome |-> "err"]

ReadSection(h, results) == RunCalls(SectionCalls(h), results, <<>>)

CallReadSection(h, results) ==
    Call("read_section", [handler |-> h, results |-> results], ReadSection(h, results))

\* no function has been applied yet
Idle == calc = NoCalc

CalcNext ==
    \/ Idle /\ \E n \in Networks : CallBroadcastEndpoint(n)
    \/ Idle /\ \E h \in {"lib", "server"}, p \in Payloads : CallParse(h, p)
    \/ Idle /\ \E env \in Envs, par \in Parallelism : CallFromEnv(env, par)
    \/ Idle /\ \E reply \in EditionReplies : CallFetchLatestEdition(reply)
    \/ Idle /\ \E cv \in 1..MaxConsensus, has_fee \in BOOLEAN : CallProveTransaction(cv, has_fee)
    \/ Idle /\ \E text \in LogTexts : CallTruncateForLog(text)
    \/ Idle /\ \E h \in {"lib", "server"}, results \in VmResults : CallReadSection(h, results)

CalcSpec == Init /\ [][CalcNext]_vars

(***************************************************************************)
(* The claims.                                                             *)
(***************************************************************************)
\* the blocking workers that are executing the prover
Proving == {r \in Requests : wpc[r] \in {"start", "locked"}}

\* the program ids the request's authorizations name
AllSeeds(r) ==
    Seeds(req[r].authorization)
        \cup (IF req[r].has_fee THEN Seeds(req[r].fee_authorization) ELSE {})

Succeeded(r) == pc[r] = "done" /\ resp[r].status = "success"

\* C1: at any moment the number of blocking workers executing the prover is
\* at most max(1, max_concurrent_proofs), cancelled requests included.
C1_AdmissionBound == Cardinality(Proving) <= Capacity(maxProofs)

\* C2: when /prove returns a success response, every program id reachable
\* through imports from the authorizations' requests and transitions is in
\* the registry (credits.aleo is loaded from the start).
C2_ClosureAfterSuccess ==
    \A r \in Requests : Succeeded(r) => Closure(AllSeeds(r)) \subseteq ProcessIds(process)

C2_Witness ==
    \E r \in Requests : Succeeded(r) /\ {"a", "b", "c"} \subseteq Closure(AllSeeds(r))

\* C3: in every reachable state every program of the registry has all its
\* declared imports in the registry.
C3_RegistryClosed == \A e \in process : ImportSet(e.id) \subseteq ProcessIds(process)

C3_Witness ==
    /\ {"b", "c"} \subseteq ProcessIds(process)
    /\ "a" \notin ProcessIds(process)
    /\ \E r, q \in Requests : r # q /\ pc[r] = "install" /\ pc[q] \in {"fetch", "install"}

\* C4: no step of any /prove invocation removes a program id from the registry.
C4_Monotone == [][ProcessIds(process) \subseteq ProcessIds(process')]_vars

C4_Witness ==
    /\ \E r \in Requests : pc[r] = "done" /\ resp[r].code = "500"
    /\ \E r \in Requests : pc[r] = "done" /\ resp[r].code = "400"
    /\ {"a", "b", "c"} \subseteq ProcessIds(process)

\* C5: a run of ensure_programs_available on an authorization for which an
\* earlier run returned Ok fetches nothing and adds nothing to the registry.
C5_IdempotentResolution ==
    \A r \in Requests : run[r].rerun => run[r].fetchLog = <<>> /\ run[r].installLog = <<>>

C5_Witness ==
    \E r \in Requests :
        /\ run[r].rerun /\ pc[r] = "resolve" /\ run[r].stack = <<>>
        /\ "a" \in Seeds(AuthOf(r))

C7_PermitReleased ==
    /\ \A r \in Requests : pc[r] \in {"done", "cancelled"} => ~permit[r]
    /\ limiter + Cardinality({r \in Requests : permit[r]}) = Capacity(maxProofs)
    /\ (\A r \in Requests : pc[r] # "join") => limiter = Capacity(maxProofs)

C7_Witness ==
    /\ handler = "lib"
    /\ \E r \in Requests : pc[r] = "done" /\ wres[r].outcome = "panic"
    /\ \E r \in Requests : pc[r] = "done" /\ wres[r].outcome = "err"
    /\ limiter = Capacity(maxProofs)

\* C8: with 2 permits and more than 2 simultaneous valid requests, every
\* request is eventually admitted, proves and gets a success response.
C8_AllSucceed == <>(\A r \in Requests : Succeeded(r))

C8_Witness ==
    /\ handler = "lib"
    /\ limiter = 0
    /\ \E r \in Requests : pc[r] = "acquire"

C10_BroadcastFlag ==
    \A r \in Requests :
        Succeeded(r) =>
            /\ resp[r].broadcast.present
            /\ resp[r].broadcast.requested <=> req[r].broadcast # "false"
            /\ posts[r] = IF req[r].broadcast = "false" THEN 0 ELSE 1

\* C11: once proving and serialization succeeded and the POST was sent, the
\* response is 200 / success whatever the endpoint did; a non-2xx reply gives
\* broadcast.success = false with the reply's status, a transport failure
\* gives broadcast.success = false with broadcast.error set.
C11_BroadcastNotEscalated ==
    \A r \in Requests :
        bres[r] # "none" =>
            /\ pc[r] = "done" /\ resp[r].code = "200" /\ resp[r].status = "success"
            /\ resp[r].broadcast.present /\ resp[r].broadcast.requested
            /\ resp[r].broadcast.success <=> bres[r] = "2xx"
            /\ bres[r] = "non2xx" =>
                   resp[r].broadcast.status = "non2xx" /\ ~resp[r].broadcast.error
            /\ bres[r] = "transport" =>
                   resp[r].broadcast.status = "none" /\ resp[r].broadcast.error

C11_Witness ==
    \E r, q \in Requests :
        /\ pc[r] = "done" /\ bres[r] = "non2xx"
        /\ pc[q] = "done" /\ bres[q] = "transport"

\* a body one of whose authorization payloads the VM parser refuses
Unparseable(body) ==
    ~body.authorization.valid \/ (body.has_fee /\ ~body.fee_authorization.valid)

C13_ResolverFailure ==
    /\ [](\A r \in Requests :
            msg[r].kind = "resolve" =>
                /\ pc[r] = "done" /\ resp[r] = ErrorReply
                /\ msg[r].program \in ProgramIds
                /\ wpc[r] = "none" /\ ~permit[r] /\ posts[r] = 0 /\ bres[r] = "none")
    /\ [][\A r \in Requests :
            (pc[r] \in {"fetch", "install"} /\ pc'[r] = "done") =>
                /\ resp'[r] = ErrorReply
                /\ msg'[r] = [kind |-> "resolve", program |-> run[r].cur.id]
                /\ limiter' = limiter /\ wpc' = wpc /\ posts' = posts]_vars

C13_Witness ==
    \E r, q \in Requests :
        /\ pc[r] = "done" /\ msg[r] = [kind |-> "resolve", program |-> "m"]
        /\ pc[q] = "done" /\ msg[q] = [kind |-> "resolve", program |-> "y"]
        /\ phase[q] = "primary"
\* C14: when a step of the prover fails, the request gets the 500 reply, which
\* carries no transaction, and no broadcast is sent; a worker that has ended
\* is not started again and each of its two executions is entered at most once.
C14_ProvingFailureAtomic ==
    /\ [](\A r \in Requests :
            wres[r].outcome = "err" =>
                /\ wpc[r] = "done" /\ posts[r] = 0 /\ bres[r] = "none"
                /\ pc[r] \in {"join", "done", "cancelled"}
                /\ pc[r] = "done" => (resp[r] = ErrorReply /\ msg[r].kind = "err"))
    /\ [][\A r \in Requests :
            /\ wpc[r] = "done" => (wpc'[r] = "done" /\ wres'[r] = wres[r])
            /\ (wpc[r] = "locked" /\ wpc'[r] = "start") =>
                   (phase[r] = "primary" /\ phase'[r] = "fee")
            /\ (wpc[r] # "none" /\ phase[r] = "fee") => phase'[r] = "fee"]_vars

C14_Witness ==
    /\ \E r \in Requests :
           pc[r] = "done" /\ wres[r].outcome = "err" /\ phase[r] = "fee"
    /\ \E r \in Requests :
           pc[r] = "done" /\ wres[r].outcome = "err" /\ phase[r] = "primary"

\* C15: a panic of the proving worker is seen at the join and answered with
\* the 500 reply; the panic changes nothing in the registry, leaves no read
\* lock and no permit behind, so that the other requests go on.
C15_PanicContained ==
    /\ [](\A r \in Requests :
            wres[r].outcome = "panic" =>
                /\ wpc[r] = "done" /\ r \notin readers /\ posts[r] = 0
                /\ pc[r] \in {"join", "done", "cancelled"}
                /\ pc[r] = "done" =>
                       (resp[r] = ErrorReply /\ msg[r].kind = "panic" /\ ~permit[r]))
    /\ [][\A r \in Requests :
            (wres'[r].outcome = "panic" /\ (wres[r].outcome # "panic" \/ pc'[r] # pc[r])) =>
                process' = process]_vars

C15_Witness ==
    \E r, q \in Requests :
        /\ pc[r] = "done" /\ wres[r].outcome = "panic" /\ resp[r].code = "500"
        /\ Succeeded(q) /\ "a" \in Seeds(req[q].authorization)
\* C16: on every import graph the explorer serves (chain, diamond, self-import,
\* cycle, missing program) and every seed set, each run of the resolver ends,
\* with Ok or with an error, after finitely many pops.
C16_ResolverTerminates ==
    <>(\A r \in Requests : pc[r] \in {"done", "acquire", "join"})

C16_Witness ==
    \E r, q \in Requests :
        /\ pc[r] = "done" /\ msg[r] = [kind |-> "resolve", program |-> "s"]
        /\ pc[q] \in {"acquire", "join"} /\ req[q].authorization.requests = <<"a", "a">>

\* a program that is among its own transitive imports
OnCycle(p) == p \in Closure(ImportSet(p))

\* C17: no program of an import cycle is ever in the registry, a request whose
\* import closure holds a cycle never passes resolution and is answered with
\* the resolver's 500, and whatever was added has its whole import closure
\* in the registry.
C17_CycleSafe ==
    /\ \A e \in process :
           ~OnCycle(e.id) /\ Closure({e.id}) \subseteq ProcessIds(process)
    /\ \A r \in Requests :
           (\E p \in Closure(Seeds(req[r].authorization)) : OnCycle(p)) =>
               /\ okPhases[r] = {} /\ wpc[r] = "none"
               /\ pc[r] = "done" => (resp[r] = ErrorReply /\ msg[r].kind = "resolve")

C17_Witness ==
    \E r \in Requests :
        /\ pc[r] = "done" /\ msg[r] = [kind |-> "resolve", program |-> "y"]
        /\ "x" \in Seeds(req[r].authorization)
        /\ "c" \in ProcessIds(process)

\* C18: the resolver never asks the explorer for credits.aleo and never adds
\* it, whether it is a seed or an import of a fetched program; the registry's
\* credits.aleo is the one loaded at construction.
C18_CreditsNeverFetched ==
    /\ \A r \in Requests :
           /\ Credits \notin Range(run[r].fetchLog)
           /\ Credits \notin Range(run[r].installLog)
           /\ Credits \notin run[r].scheduled
           /\ \A i \in 1..Len(run[r].pending) : run[r].pending[i].id # Credits
           /\ pc[r] \in {"fetch", "install"} => run[r].cur.id # Credits
    /\ \A e \in process : e.id = Credits => e.api = "load"

C18_Witness ==
    \E r \in Requests :
        /\ "fee" \in okPhases[r]
        /\ Credits \in Seeds(req[r].fee_authorization)
        /\ "b" \in Range(run[r].installLog) \/ "b" \in ProcessIds(process)
\* C19: GET / can always be answered and always answers 200 {"status": "ok"},
\* whatever the registry holds, whichever proves are in flight and however
\* many permits are left; answering it touches neither the limiter nor the
\* registry lock nor any request.
C19_HealthCheck ==
    /\ [](/\ ENABLED HealthCheck
          /\ health \in {NoHealth, [code |-> "200", status |-> "ok"]})
    /\ [][health' # health =>
            /\ health' = [code |-> "200", status |-> "ok"]
            /\ UNCHANGED <<process, readers, limiter, waiters, permit, pc, wpc, resp>>]_vars

C19_Witness ==
    /\ health.code = "200"
    /\ handler = "lib" /\ limiter = 0 /\ readers # {}
    /\ \E r \in Requests : pc[r] = "install"

\* C20: every request fetches from and broadcasts to the network chosen at
\* startup, whatever its body says.
C20_NetworkFixed == \A r \in Requests : net[r] \in {"none", StartupNetwork}
\* C21: for each network, broadcast_endpoint is the network's base URL
\* followed by "/transaction/broadcast?check_transaction=true".
C21_BroadcastEndpoint ==
    calc.op = "broadcast_endpoint" =>
        calc.output = BaseUrl(calc.input)
                          \o <<"/", "transaction", "/", "broadcast", "?check_transaction=true">>

\* C22: a valid authorization sent as a JSON object and sent as a JSON-encoded
\* string is accepted in both forms, and the parser is handed the same
\* compact text.
C22_PayloadForms ==
    calc.op = "parse" =>
        LET p == calc.input.payload IN
        /\ (p.form = "object" /\ p.auth.valid) =>
               (calc.output.ok /\ calc.output.text = ObjectText(p.auth, "compact"))
        /\ (p.form = "string" /\ p.text.layout = "compact" /\ p.text.auth.valid) =>
               (calc.output.ok /\ calc.output.text = ObjectText(p.text.auth, "compact"))
\* a text that str::parse reads as a positive usize
PositiveCount(v) ==
    v.set /\ ParseUnsigned(v.text, UsizeMax).ok /\ ParseUnsigned(v.text, UsizeMax).value > 0

\* C23: whatever MAX_CONCURRENT_PROOFS holds, the loaded max_concurrent_proofs
\* is at least 1: a positive integer is taken as given, anything else keeps
\* the default, and the semaphore's capacity max(1, max_concurrent_proofs)
\* is that number.
C23_CapAtLeastOne ==
    calc.op = "from_env" =>
        LET v       == calc.input.env.MAX_CONCURRENT_PROOFS
            default == IF calc.input.par.ok THEN calc.input.par.value ELSE 1
            loaded  == calc.output.max_concurrent_proofs
        IN  /\ loaded >= 1
            /\ Capacity(loaded) = loaded
            /\ PositiveCount(v) => loaded = ParseUnsigned(v.text, UsizeMax).value
            /\ ~PositiveCount(v) => loaded = default

C23_Witness ==
    /\ calc.op = "from_env"
    /\ calc.input.env.MAX_CONCURRENT_PROOFS = Var(<<"0">>)
    /\ calc.input.par = [ok |-> TRUE, value |-> MaxCpus]
    /\ calc.output.max_concurrent_proofs = MaxCpus

\* the environment in which only key k keeps its value
Only(env, k) == [j \in DOMAIN env |-> IF j = k THEN env[j] ELSE Unset]

\* the field that key k sets, read from a config
FieldOf(config, k) ==
    CASE k = "PROVER_LISTEN_ADDR"       -> <<config.listen_addr>>
      [] k = "MAX_CONCURRENT_PROOFS"    -> <<config.max_concurrent_proofs>>
      [] k = "NETWORK"                  -> <<config.network>>
      [] k = "ENFORCE_PROGRAM_EDITIONS" -> <<config.enforce_program_editions>>
      [] k = "REST_ENDPOINT_OVERRIDE"   -> <<config.rest_endpoint_override>>

\* the value of key k is one the program reads
Recognized(v, k) ==
    CASE k = "PROVER_LISTEN_ADDR"       -> ParseSocketAddr(v.text).ok
      [] k = "MAX_CONCURRENT_PROOFS"    -> PositiveCount(v)
      [] k = "NETWORK"                  -> NetworkFromStr(v.text).ok
      [] k = "ENFORCE_PROGRAM_EDITIONS" -> ParseBool(v.text).ok
      [] k = "REST_ENDPOINT_OVERRIDE"   -> Trim(v.text) # <<>>

\* C24: from_env returns a config for every combination of values of the
\* five keys; a field whose key is unset, empty or unrecognized holds its
\* default, and the field of a key depends on the value of that key alone.
C24_LoadNeverFails ==
    calc.op = "from_env" =>
        LET env == calc.input.env
            par == calc.input.par
        IN  /\ DOMAIN calc.output = DOMAIN DefaultConfig(par)
            /\ \A k \in DOMAIN env :
                   /\ (~env[k].set \/ env[k].text = <<>> \/ ~Recognized(env[k], k)) =>
                          FieldOf(calc.output, k) = FieldOf(DefaultConfig(par), k)
                   /\ FieldOf(calc.output, k) = FieldOf(FromEnv(Only(env, k), par), k)

C24_Witness ==
    /\ calc.op = "from_env"
    /\ calc.input.env.NETWORK = Var(<<"d", "e", "v", "n", "e", "t">>)
    /\ calc.input.env.MAX_CONCURRENT_PROOFS = Var(<<"4">>)
    /\ calc.input.env.ENFORCE_PROGRAM_EDITIONS = Var(<<"m", "a", "y", "b", "e">>)
    /\ calc.output.network = "testnet"
    /\ calc.output.max_concurrent_proofs = 4
    /\ calc.output.enforce_program_editions
\* C25: the resolver installs a pending program with
\* add_program_with_edition(program, edition) when enforce_program_editions is
\* on and with add_program(program) when it is off, and with enforcement off
\* no fetched latest edition goes into the install.
C25_EditionToggle ==
    \A entry \in process \ LoadedProcess :
        /\ entry.api = IF enforce THEN "add_program_with_edition" ELSE "add_program"
        /\ ~enforce => entry.edition = 0
\* a text that is a decimal u16
DecimalU16(t) == ParseUnsigned(t, U16Max).ok

\* C26: fetch_latest_edition maps a 404 reply to Ok(None), any other non-2xx
\* reply to an error that carries the status, a 2xx reply whose trimmed body
\* is a decimal u16 to Ok(Some(n)), and a 2xx reply whose body is not a u16
\* to an error.
C26_EditionStatusMapping ==
    (calc.op = "fetch_latest_edition" /\ calc.input.kind = "http") =>
        LET reply == calc.input
            out   == calc.output
            body  == Trim(reply.body)
        IN  /\ reply.status = 404 => (out.ok /\ ~out.some)
            /\ (reply.status \notin 200..299 /\ reply.status # 404) =>
                   (~out.ok /\ out.error = "status" /\ out.status = reply.status)
            /\ (reply.status \in 200..299 /\ reply.readable /\ DecimalU16(body)) =>
                   (out.ok /\ out.some /\ out.edition = ParseUnsigned(body, U16Max).value)
            /\ (reply.status \in 200..299 /\ ~DecimalU16(body)) => ~out.ok

C26_Witness ==
    /\ calc.op = "fetch_latest_edition"
    /\ calc.input.kind = "http"
    /\ calc.input.status = 404
    /\ calc.output = OkNone

\* C27: the prover uses VarunaVersion V1 for a consensus version from V1 to
\* V3 and V2 for any other, and hands the same version to prove_execution
\* and to prove_fee.
C27_VarunaRule ==
    calc.op = "prove_transaction" =>
        /\ calc.output.execution =
               IF 1 <= calc.input.cv /\ calc.input.cv <= 3 THEN "V1" ELSE "V2"
        /\ calc.input.has_fee => calc.output.fee = calc.output.execution

C27_Witness ==
    /\ calc.op = "prove_transaction"
    /\ calc.input = [cv |-> 3, has_fee |-> TRUE]
    /\ calc.output = [execution |-> "V1", fee |-> "V1"]

\* C28 (as the code has it): a text of at most 256 characters is reported
\* unchanged; a longer one is reported as its first 256 characters followed by
\* the ellipsis character, 257 characters in all.
C28_Truncation ==
    calc.op = "truncate_for_log" =>
        /\ Len(calc.input) <= LogLimit => calc.output = calc.input
        /\ Len(calc.input) > LogLimit =>
               /\ Len(calc.output) = LogLimit + 1
               /\ \A i \in 1..LogLimit : calc.output[i] = calc.input[i]
               /\ calc.output[LogLimit + 1] = Ellipsis

C28_Witness ==
    /\ calc.op = "truncate_for_log"
    /\ Len(calc.input) = LogLimit + 1
    /\ Len(calc.output) = LogLimit + 1
    /\ calc.output # calc.input

\* C28 (as stated): the reported text is the source truncated at 256
\* characters with a trailing ellipsis and has at most 256 characters; a
\* source of at most 256 characters is reported unchanged.
C28_AtMost256 ==
    calc.op = "truncate_for_log" =>
        /\ Len(calc.output) <= LogLimit
        /\ Len(calc.input) <= LogLimit => calc.output = calc.input
        /\ Len(calc.input) > LogLimit => calc.output[Len(calc.output)] = Ellipsis
\* the next step of the blocking worker of request r
WorkerStep(r) ==
    \/ \E pre \in Outcomes : WorkerLock(r, pre)
    \/ \E out \in Outcomes : WorkerExecute(r, out)

\* C29: when the handler of a request is cancelled while its worker is
\* dispatched, the worker keeps its position and can always take its next
\* step until it is done; the cancelled request gets no response and sends no
\* broadcast afterwards, and the steps of its worker leave the registry as
\* it is.
C29_Cancellation ==
    /\ [](\A r \in Requests :
            (pc[r] = "cancelled" /\ wpc[r] # "none") =>
                /\ resp[r] = NoResponse /\ bres[r] = "none"
                /\ wpc[r] \in {"start", "locked"} => ENABLED WorkerStep(r))
    /\ [][\A r \in Requests :
            /\ (pc[r] = "join" /\ pc'[r] = "cancelled") =>
                   /\ wpc'[r] = wpc[r] /\ wres'[r] = wres[r]
                   /\ process' = process
                   /\ r \in readers <=> r \in readers'
            /\ pc[r] = "cancelled" =>
                   /\ pc'[r] = "cancelled"
                   /\ resp'[r] = resp[r] /\ posts'[r] = posts[r] /\ bres'[r] = bres[r]
                   /\ wpc'[r] # wpc[r] => process' = process]_vars

C29_Witness ==
    \E r \in Requests :
        /\ pc[r] = "cancelled" /\ posts[r] = 0
        /\ wpc[r] = "done" /\ wres[r].outcome = "ok"
        /\ resp[r] = NoResponse

\* C30: a program is added to the registry only in the write-lock section,
\* with no reader inside, and only when the re-check found it absent, so no
\* program id is added twice; a resolver that finds the program installed by
\* another resolver goes on without an error.
C30_InstallRecheck ==
    [][\A r \in Requests :
          /\ Len(run'[r].installLog) > Len(run[r].installLog) =>
                 /\ pc[r] = "install" /\ readers = {}
                 /\ ~ContainsProgram(process, run[r].cur.id)
                 /\ ContainsProgram(process', run[r].cur.id)
          /\ (pc[r] = "install" /\ ContainsProgram(process, run[r].cur.id)
                 /\ pc'[r] # "install") =>
                 (pc'[r] = "resolve" /\ resp'[r] = NoResponse /\ process' = process)
          /\ process' # process =>
                 \E q \in Requests :
                     /\ pc[q] = "install"
                     /\ process' \ process \subseteq {e \in process' : e.id = run[q].cur.id}
                     /\ Len(run'[q].installLog) > Len(run[q].installLog)]_vars

C30_Witness ==
    \E r, q \in Requests :
        /\ r # q
        /\ pc[r] = "install"
        /\ ContainsProgram(process, run[r].cur.id)
        /\ \E i \in 1..Len(run[q].installLog) : run[q].installLog[i] = run[r].cur.id

\* the import graph below p has no cycle
Acyclic(p) == \A q \in Closure({p}) : ~OnCycle(q)

\* C31: on an acyclic import graph, whenever the resolver calls add_program
\* for a program, every declared import of it other than credits.aleo is in
\* the registry at that moment.
C31_PostOrder ==
    [][\A r \in Requests :
          (/\ pc[r] = "install" /\ pc'[r] # "install"
           /\ ~ContainsProgram(process, run[r].cur.id)
           /\ Acyclic(run[r].cur.id)) =>
              /\ \A i \in ImportSet(run[r].cur.id) \ {Credits} : ContainsProgram(process, i)
              /\ ContainsProgram(process', run[r].cur.id)]_vars

C31_Witness == \E r \in Requests : run[r].installLog = <<"c", "b", "a">>

\* C32: within one run of the resolver each program id is fetched at most
\* once, and a program that is in the registry when it is popped is not
\* fetched.
C32_OneFetchPerRun ==
    /\ [](\A r \in Requests :
            \A i, j \in 1..Len(run[r].fetchLog) :
                run[r].fetchLog[i] = run[r].fetchLog[j] => i = j)
    /\ [][\A r \in Requests :
            Len(run'[r].fetchLog) > Len(run[r].fetchLog) =>
                LET id == run'[r].fetchLog[Len(run'[r].fetchLog)] IN
                /\ pc[r] = "resolve" /\ pc'[r] = "fetch"
                /\ id = run[r].stack[Len(run[r].stack)].id
                /\ id \notin Range(run[r].fetchLog)
                /\ ~ContainsProgram(process, id)]_vars

C32_Witness ==
    \E r \in Requests :
        /\ run[r].fetchLog = <<"x", "y">>
        /\ pc[r] = "resolve"
        /\ run[r].stack = <<[id |-> "x", ready |-> TRUE], [id |-> "y", ready |-> TRUE]>>

\* the request is inside a run of the resolver
Resolving(r) == pc[r] \in {"resolve", "fetch", "install"}

\* C33: the resolver runs for the fee authorization only after its run for
\* the primary authorization returned Ok; a request whose primary resolution
\* failed never enters the fee run, so nothing is fetched or installed for
\* the fee authorization.
C33_PrimaryBeforeFee ==
    /\ [](\A r \in Requests :
            /\ (Resolving(r) /\ phase[r] = "fee") =>
                   (req[r].has_fee /\ "primary" \in okPhases[r])
            /\ "fee" \in okPhases[r] => "primary" \in okPhases[r]
            /\ (pc[r] = "done" /\ "primary" \notin okPhases[r]) =>
                   (phase[r] = "primary" /\ wpc[r] = "none"))
    /\ [][\A r \in Requests :
            /\ (Resolving(r) /\ phase[r] = "primary" /\ phase'[r] = "fee") =>
                   (run[r].stack = <<>> /\ pc[r] = "resolve" /\ run'[r].fetchLog = <<>>)
            /\ (Resolving(r) /\ phase[r] = "primary" /\ pc'[r] = "done") =>
                   (phase'[r] = "primary" /\ resp'[r] = ErrorReply)
            /\ (pc[r] = "done" /\ "primary" \notin okPhases[r]) =>
                   (pc'[r] = "done" /\ run'[r] = NoRun)]_vars

C33_Witness ==
    \E r \in Requests :
        /\ pc[r] = "done" /\ msg[r] = [kind |-> "resolve", program |-> "m"]
        /\ req[r].has_fee /\ "a" \in Seeds(req[r].fee_authorization)
        /\ phase[r] = "primary" /\ okPhases[r] = {}
        /\ "a" \notin ProcessIds(process)

\* C34: a request holds a permit only from the end of its program resolution
\* (acquire, then dispatch of the worker) to the join of its worker; none is
\* held during a fetch, an install or the broadcast POST, so requests that
\* wait for the explorer or the broadcast endpoint take nothing from the
\* limiter.
C34_PermitInterval ==
    /\ [](/\ \A r \in Requests :
               permit[r] => (pc[r] = "join" /\ wpc[r] # "none" /\ "primary" \in okPhases[r])
          /\ limiter = Capacity(maxProofs)
                           - Cardinality({r \in Requests : pc[r] = "join" /\ permit[r]}))
    /\ [][\A r \in Requests :
            /\ (~permit[r] /\ permit'[r]) =>
                   (pc[r] = "acquire" /\ pc'[r] = "join" /\ wpc'[r] = "start")
            /\ (permit[r] /\ ~permit'[r]) =>
                   /\ pc[r] = "join" /\ pc'[r] \in {"done", "broadcast", "cancelled"}
                   /\ pc'[r] # "cancelled" => wpc[r] = "done"]_vars

C34_Witness ==
    /\ handler = "lib"
    /\ limiter = Capacity(maxProofs)
    /\ \E r, q \in Requests : pc[r] = "fetch" /\ pc[q] = "broadcast"

\* C35: in one read-lock section the prover calls execute only after
\* check_valid_edition and check_valid_records both succeeded; when a check
\* fails execute is not called and the section ends with an error.
C35_ValidateBeforeExecute ==
    calc.op = "read_section" =>
        LET made    == calc.output.calls
            results == calc.input.results
            checked == results["check_valid_edition"] = "ok"
                           /\ results["check_valid_records"] = "ok"
        IN  /\ "execute" \in Range(made) =>
                   /\ made = <<"check_valid_edition", "check_valid_records", "execute">>
                   /\ checked
            /\ ~checked => ("execute" \notin Range(made) /\ calc.output.outcome = "err")

\* C36: a broadcast POST is sent only after the proving worker returned a
\* transaction and the transaction was serialized, and what is posted is that
\* transaction; a request answered 400 or 500 has sent no POST, and no
\* request sends more than one.
C36_BroadcastAfterProof ==
    \A r \in Requests :
        /\ posts[r] <= 1
        /\ posts[r] = 1 =>
               /\ wpc[r] = "done" /\ wres[r].outcome = "ok"
               /\ wres[r].artifact = "transaction"
               /\ BroadcastPayload(handler, wres[r].artifact) = "transaction"
        /\ (pc[r] = "done" /\ resp[r].code \in {"400", "500"}) => posts[r] = 0

\* the requests that wait for the registry's write lock
Writers == {r \in Requests : pc[r] = "install"}

\* C37: a request that asks for the write lock holds no read lock, the read
\* guards are exactly those of the workers inside their read-lock section and
\* each of them can be released, and a waiting writer gets the lock once the
\* readers are out: whenever a request is at the registry lock, some request
\* at the lock can take its step.
C37_NoRegistryDeadlock ==
    /\ [](/\ \A r \in Requests :
               /\ r \in Writers =>
                      (r \notin readers /\ wpc[r] = "none" /\ run[r].guard = "none")
               /\ r \in readers <=> wpc[r] = "locked"
               /\ r \in readers => ENABLED (\E out \in Outcomes : WorkerExecute(r, out))
               /\ (r \in Writers /\ readers = {}) => ENABLED Install(r)
          /\ (Writers # {} \/ readers # {}) =>
                 \E r \in Requests :
                     \/ r \in readers /\ ENABLED (\E out \in Outcomes : WorkerExecute(r, out))
                     \/ r \in Writers /\ ENABLED Install(r))
    /\ [][\A r \in Requests :
            /\ (r \notin readers /\ r \in readers') => (wpc[r] = "start" /\ pc[r] # "install")
            /\ (r \in readers /\ wpc'[r] # wpc[r]) => r \notin readers'
            /\ process' # process => readers = {}]_vars

C37_Witness ==
    \E r, q \in Requests :
        /\ r \in Writers /\ q \in readers
        /\ ~ENABLED Install(r)

\* C38: a resolver that awaits an explorer fetch holds no guard of the
\* registry, so while it waits another request's install gets the write lock
\* as soon as the workers' read sections are over, and a worker gets its
\* read lock.
C38_NoLockAcrossFetch ==
    \A r \in Requests :
        pc[r] = "fetch" =>
            /\ run[r].guard = "none" /\ r \notin readers
            /\ \A q \in Requests \ {r} :
                   /\ (pc[q] = "install" /\ readers = {}) => ENABLED Install(q)
                   /\ wpc[q] \in {"start", "locked"} => ENABLED WorkerStep(q)

C38_Witness ==
    \E r, q \in Requests :
        /\ pc[r] = "fetch" /\ pc[q] = "install"
        /\ readers = {}
        /\ ENABLED Install(q)

\* a run of the resolver that has done nothing yet, on an authorization
\* whose seed programs are all installed or credits.aleo
PreRegistered(r) ==
    /\ pc[r] = "resolve"
    /\ run[r].fetchLog = <<>> /\ run[r].installLog = <<>>
    /\ Seeds(AuthOf(r)) \subseteq ProcessIds(process) \cup {Credits}

\* C39: when every seed program of the authorization is in the registry or
\* is credits.aleo, the resolver's run issues no explorer fetch, never asks
\* for the write lock, leaves the registry as it is and returns Ok, so the
\* request goes on to the next authorization or to proving without any
\* answer from the explorer.
C39_PreRegisteredNoOp ==
    [][\A r \in Requests :
           PreRegistered(r) =>
               /\ pc'[r] \notin {"fetch", "install", "done", "cancelled"}
               /\ resp'[r] = resp[r]
               /\ run'[r].fetchLog = <<>> /\ run'[r].installLog = <<>>
               /\ (pc'[r] # pc[r] \/ run'[r] # run[r] \/ phase'[r] # phase[r]) =>
                      /\ process' = process
                      /\ run[r].stack = <<>> => phase[r] \in okPhases'[r]
      ]_vars

C39_Witness ==
    \E r \in Requests :
        /\ ~run[r].rerun
        /\ PreRegistered(r) /\ run[r].stack = <<>>
        /\ "a" \in Seeds(AuthOf(r))

\* the programs a run has fetched and not yet installed, with the one it is
\* installing
Fetched(r) ==
    Range(run[r].pending) \cup (IF pc[r] = "install" THEN {run[r].cur} ELSE {})

\* C40: where the resolver asks for a program's latest edition
\* (fetch_remote_program_with_edition), a 404 answer makes it request the
\* program at edition 0 and install it with edition 0, and an answer n makes
\* it request and install the program with that n.
C40_MissingEditionIsZero ==
    handler = "server" =>
        /\ \A r \in Requests : \A e \in Fetched(r) :
               /\ LatestEdition(e.id) = {} => (e.url = {0} /\ e.edition = 0)
               /\ \A n \in LatestEdition(e.id) : e.url = {n} /\ e.edition = n
        /\ \A e \in process \ LoadedProcess :
               /\ LatestEdition(e.id) = {} => e.edition = 0
               /\ \A n \in LatestEdition(e.id) : e.edition = n

C40_Witness ==
    /\ handler = "server"
    /\ \E e \in process : LatestEdition(e.id) = {} /\ e.edition = 0 /\ e.api = "add_program_with_edition"
    /\ \E e \in process : LatestEdition(e.id) = {1} /\ e.edition = 1 /\ e.api = "add_program_with_edition"

====
